---- MODULE Spec2Model ----
(***************************************************************************)
(* Model of the /search route of the dataset viewer                        *)
(* (services/search/src/search/routes/search.py): one request travelling   *)
(* through search_endpoint, full_text_search and the two scan strategies   *)
(* _search_by_table and _search_by_batches.                                *)
(*                                                                         *)
(* The index is the DuckDB table `data`: row i of the table has            *)
(* __hf_index_id = i (ids start at 0) and a relevance score for the        *)
(* request's query; score 0 stands for a NULL score (no match).            *)
(* An Arrow table is a sequence of rows [id, score]; once the score column *)
(* is dropped it is the sequence of the rows' ids.  The cache entry's       *)
(* num_rows is the number of rows of the table.                            *)
(*                                                                         *)
(* Two more specifications share the module: SpecMigration, the cache      *)
(* migration that deletes the "/parquet-and-dataset-info" entries, and     *)
(* SpecIntColumn, the construction of an IntColumn.                        *)
(***************************************************************************)
EXTENDS Integers, Sequences, FiniteSets, TLC

\* ---------------------------------------------------------------- bounds
MaxRows == 4
MaxScore == 2
MaxOffset == 1
MaxLength == 2

\* FTS_BATCH_SIZE of the source is 1000; the model scales the window down so
\* that an index of MaxRows rows spans several windows.
FTS_BATCH_SIZE == 2

DATASETS_WITH_FTS_BY_BATCHES == {"wikimedia/wikipedia", "asoria/search_test"}

Datasets == DATASETS_WITH_FTS_BY_BATCHES \cup {"user/dataset"}

VARIABLES
    pc,                 \* position of the request in search_endpoint
    data,               \* the index: data[i+1] is the score of row id i
    dataset,            \* request parameter
    offset,             \* request parameter
    length,             \* request parameter
    entry,              \* duckdb_index_cache_entry
    num_original_rows,  \* entry content num_rows
    fts_batches,        \* dataset in DATASETS_WITH_FTS_BY_BATCHES
    open_handles,       \* connections currently open
    opened,             \* connections opened so far by the request
    downloads,          \* index files downloaded so far by the request
    num_rows_total,     \* result of the count query
    index,              \* loop variable of _search_by_batches
    num_matched_rows,   \* running count of _search_by_batches
    pa_tables,          \* accumulator of _search_by_batches
    pa_table,           \* page returned by the strategy
    outcome,            \* of the scan strategy: "none", "returned", "raised"
    log,                \* queries issued on the connection, in order
    response,           \* the HTTP response of the request
    steps,              \* steps of search_endpoint that have succeeded
    cancelled_at,       \* where the request was when its task was
                        \* cancelled, "none" while it is not
    \* the cache collection and the runs of the migration
    collection,         \* documents [id, kind] of the cache collection
    before,             \* the collection before the last migration call
    ops,                \* the migration methods called so far
    raised,             \* what the last migration call raised, or "none"
    \* the construction of an IntColumn
    feature,            \* argument of IntColumn.__init__
    values,             \* argument of IntColumn.__init__
    result              \* "none" before the call, then "ok" or the error

vars == <<pc, data, dataset, offset, length, entry, num_original_rows,
          fts_batches, open_handles, opened, downloads, num_rows_total,
          index, num_matched_rows, pa_tables, pa_table, outcome, log,
          response, steps, cancelled_at, collection, before, ops, raised,
          feature, values, result>>

search_vars == <<pc, data, dataset, offset, length, entry, num_original_rows,
                 fts_batches, open_handles, opened, downloads, num_rows_total,
                 index, num_matched_rows, pa_tables, pa_table, outcome, log,
                 response, steps, cancelled_at>>

migration_vars == <<collection, before, ops, raised>>

column_vars == <<feature, values, result>>

Cancelled == cancelled_at # "none"

\* ------------------------------------------------------------ sequences
Min(a, b) == IF a < b THEN a ELSE b

RECURSIVE Perms(_)
Perms(S) ==
    IF S = {} THEN {<<>>}
    ELSE UNION {{<<x>> \o p : p \in Perms(S \ {x})} : x \in S}

RECURSIVE Concat(_)
Concat(ts) == IF ts = <<>> THEN <<>> ELSE ts[1] \o Concat(Tail(ts))

Indexes == UNION {[1..n -> 0..MaxScore] : n \in 0..MaxRows}

Ids(d) == {i - 1 : i \in 1..Len(d)}

Score(d, id) == d[id + 1]

Row(d, id) == [id |-> id, score |-> Score(d, id)]

\* ------------------------------------------------------- the SQL commands
\* FTS_COUNT_COMMAND: SELECT COUNT(*) ... WHERE __hf_fts_score IS NOT NULL
FTS_COUNT_COMMAND_all(d) == Len(d)

RECURSIVE FTS_COUNT_COMMAND(_)
FTS_COUNT_COMMAND(d) ==
    IF d = <<>> THEN 0
    ELSE (IF Head(d) # 0 THEN 1 ELSE 0) + FTS_COUNT_COMMAND(Tail(d))

IsDescending(t) == \A i \in 1..(Len(t) - 1) : t[i].score >= t[i + 1].score

\* OFFSET off LIMIT len of SQL, and Table.slice(off, len) of Arrow
Slice(t, off, len) ==
    IF off >= Len(t) THEN <<>> ELSE SubSeq(t, off + 1, Min(off + len, Len(t)))

\* drop("__hf_fts_score") / EXCLUDE (__hf_fts_score)
DropScore(t) == [i \in 1..Len(t) |-> t[i].id]

\* FTS_BY_TABLE_COMMAND: ... WHERE __hf_fts_score IS NOT NULL
\* ORDER BY __hf_fts_score DESC OFFSET off LIMIT len.  The ORDER BY names the
\* score only, so rows of equal score come in any order: the set of the pages
\* the command can return.
FTS_BY_TABLE_COMMAND(d, off, len) ==
    LET matched == {Row(d, id) : id \in {j \in Ids(d) : Score(d, j) # 0}}
        ranked  == {t \in Perms(matched) : IsDescending(t)}
    IN  {Slice(DropScore(t), off, len) : t \in ranked}

\* FTS_BY_BATCHES_COMMAND: ... WHERE __hf_index_id BETWEEN lo and hi ...
\* WHERE __hf_fts_score IS NOT NULL.  BETWEEN includes both ends; there is no
\* ORDER BY, so the rows come in any order: the set of the tables the command
\* can return.
FTS_BY_BATCHES_COMMAND(d, lo, hi) ==
    Perms({Row(d, id) : id \in {j \in Ids(d) :
                                  lo <= j /\ j <= hi /\ Score(d, j) # 0}})

\* --------------------------------------------------------- Arrow helpers
\* Table.sort_by([("__hf_fts_score", "descending")]): a stable sort
InsertDesc_append(s, x) == Append(s, x)

InsertDesc(s, x) ==
    LET k == Cardinality({i \in 1..Len(s) : s[i].score >= x.score})
    IN  SubSeq(s, 1, k) \o <<x>> \o SubSeq(s, k + 1, Len(s))

RECURSIVE sort_by(_)
sort_by(t) ==
    IF t = <<>> THEN <<>>
    ELSE InsertDesc(sort_by(SubSeq(t, 1, Len(t) - 1)), t[Len(t)])

\* if num_matched_rows > (offset + length): break
StopScan_ge(matched, off, len) == matched >= off + len

StopScan(matched, off, len) == matched > off + len

\* The end of _search_by_batches: concat_tables, sort_by, drop, slice.
\* pa.concat_tables raises on an empty list of tables.
search_by_batches_finish(tables, off, len) ==
    IF tables = <<>>
    THEN [raised |-> TRUE, table |-> <<>>]
    ELSE [raised |-> FALSE,
          table  |-> Slice(DropScore(sort_by(Concat(tables))), off, len)]

search_by_batches_swallow(tables, off, len) ==
    search_by_batches_finish(tables, off, len)

\* A window query that raises: con.execute is not guarded, the exception
\* leaves the loop and the function.
search_by_batches_raise(tables, off, len) ==
    [raised |-> TRUE, table |-> <<>>]

\* ------------------------------------------------------ the index handle
duckdb_connect_enter(h) == h + 1

duckdb_connect_exit(h) == h - 1

\* `with duckdb_connect(...) as con:` leaves through __exit__ on return and
\* on exception alike.
WithExit_leak(h) == h

WithExit(h) == duckdb_connect_exit(h)

\* ------------------------------------------------------------- responses
NoResponse ==
    [kind |-> "none", status |-> "", error_code |-> "", rows |-> <<>>,
     num_rows_total |-> 0]

ApiError(code) == [api |-> TRUE, code |-> code]

OtherError(code) == [api |-> FALSE, code |-> code]

\* except Exception as e: e if isinstance(e, ApiError) else UnexpectedApiError
AsApiError(e) == IF e.api THEN e ELSE ApiError("UnexpectedError")

\* the status of the response is error.status_code
get_json_api_error_response(e) ==
    [kind |-> "error", status |-> "error.status_code",
     error_code |-> AsApiError(e).code, rows |-> <<>>, num_rows_total |-> 0]

get_json_error_response_unexpected(e) ==
    get_json_api_error_response(OtherError("KeyError"))

\* status_code=duckdb_index_cache_entry["http_status"],
\* error_code=duckdb_index_cache_entry["error_code"]
get_json_error_response(e) ==
    [kind |-> "error", status |-> e.http_status, error_code |-> e.error_code,
     rows |-> <<>>, num_rows_total |-> 0]

get_json_ok_response(rows, total) ==
    [kind |-> "ok", status |-> "OK", error_code |-> "", rows |-> rows,
     num_rows_total |-> total]

NoEntry == [http_status |-> "none", error_code |-> "", has_fts |-> "None"]

CacheEntries ==
    {[http_status |-> "OK", error_code |-> "", has_fts |-> f] :
        f \in {"True", "False", "None"}}
    \cup
    {[http_status |-> "INTERNAL_SERVER_ERROR",
      error_code |-> "PreviousStepFormatError", has_fts |-> "None"]}

\* duckdb_index_cache_entry["content"]["has_fts"] is not True
HasFts_notFalse(e) == e.has_fts # "False"

HasFts(e) == e.has_fts = "True"

\* -------------------------------------------------------------- IntColumn
\* feature is None
NoFeature == [type |-> "None", dtype |-> ""]

\* ------------------------------------------------------------------ Init
Init ==
    /\ pc = "validate"
    /\ data \in Indexes
    /\ dataset = ""
    /\ offset = 0
    /\ length = 0
    /\ entry = NoEntry
    /\ num_original_rows = 0
    /\ fts_batches = FALSE
    /\ open_handles = 0
    /\ opened = 0
    /\ downloads = 0
    /\ num_rows_total = 0
    /\ index = 0
    /\ num_matched_rows = 0
    /\ pa_tables = <<>>
    /\ pa_table = <<>>
    /\ outcome = "none"
    /\ log = <<>>
    /\ response = NoResponse
    /\ steps = <<>>
    /\ cancelled_at = "none"
    /\ collection = {}
    /\ before = {}
    /\ ops = <<>>
    /\ raised = "none"
    /\ feature = NoFeature
    /\ values = <<>>
    /\ result = "none"

\* the except clause of search_endpoint
Raise(e) ==
    /\ response' = get_json_api_error_response(e)
    /\ pc' = "done"

\* --------------------------------------------------- search_endpoint steps
ValidateParameters ==
    /\ pc = "validate"
    /\ UNCHANGED <<migration_vars, column_vars>>
    /\ \/ /\ \E ds \in Datasets, off \in 0..MaxOffset, len \in 1..MaxLength :
                /\ dataset' = ds
                /\ offset' = off
                /\ length' = len
          /\ pc' = "auth"
          /\ UNCHANGED response
       \/ /\ Raise(ApiError("InvalidParameter"))
          /\ UNCHANGED <<dataset, offset, length>>
    /\ steps' = IF pc' = "done" THEN steps ELSE Append(steps, "validate")
    /\ UNCHANGED cancelled_at
    /\ UNCHANGED <<data, entry, num_original_rows, fts_batches, open_handles,
                   opened, downloads, num_rows_total, index, num_matched_rows,
                   pa_tables, pa_table, outcome, log>>

AuthCheck ==
    /\ pc = "auth"
    /\ UNCHANGED <<migration_vars, column_vars>>
    /\ \/ pc' = "entry" /\ UNCHANGED response
       \/ Raise(ApiError("ExternalUnauthenticatedError"))
    /\ steps' = IF pc' = "done" THEN steps ELSE Append(steps, "auth")
    /\ UNCHANGED cancelled_at
    /\ UNCHANGED <<data, dataset, offset, length, entry, num_original_rows,
                   fts_batches, open_handles, opened, downloads,
                   num_rows_total, index, num_matched_rows, pa_tables,
                   pa_table, outcome, log>>

GetCacheEntry ==
    /\ pc = "entry"
    /\ UNCHANGED <<migration_vars, column_vars>>
    /\ \/ \E e \in CacheEntries :
            /\ entry' = e
            /\ IF e.http_status # "OK"
               THEN /\ response' = get_json_error_response(e)
                    /\ pc' = "done"
                    /\ UNCHANGED num_original_rows
               ELSE IF ~HasFts(e)
               THEN /\ Raise(ApiError("SearchFeatureNotAvailableError"))
                    /\ UNCHANGED num_original_rows
               ELSE /\ num_original_rows' = Len(data)
                    /\ pc' = "download"
                    /\ UNCHANGED response
       \/ /\ Raise(ApiError("ResponseNotReadyError"))
          /\ UNCHANGED <<entry, num_original_rows>>
    /\ steps' = IF pc' = "done" THEN steps ELSE Append(steps, "entry")
    /\ UNCHANGED cancelled_at
    /\ UNCHANGED <<data, dataset, offset, length, fts_batches, open_handles,
                   opened, downloads, num_rows_total, index, num_matched_rows,
                   pa_tables, pa_table, outcome, log>>

DownloadIndex ==
    /\ pc = "download"
    /\ UNCHANGED <<migration_vars, column_vars>>
    /\ \/ /\ downloads' = downloads + 1
          /\ pc' = "connect"
          /\ UNCHANGED response
       \/ /\ Raise(ApiError("DownloadIndexError"))
          /\ UNCHANGED downloads
    /\ steps' = IF pc' = "done" THEN steps ELSE Append(steps, "download")
    /\ UNCHANGED cancelled_at
    /\ UNCHANGED <<data, dataset, offset, length, entry, num_original_rows,
                   fts_batches, open_handles, opened, num_rows_total, index,
                   num_matched_rows, pa_tables, pa_table, outcome, log>>

\* ------------------------------------------------------ full_text_search
\* fts_batches = dataset in DATASETS_WITH_FTS_BY_BATCHES, then
\* full_text_search enters `with duckdb_connect(...)`.
Connect ==
    /\ pc = "connect"
    /\ UNCHANGED <<migration_vars, column_vars>>
    /\ fts_batches' = (dataset \in DATASETS_WITH_FTS_BY_BATCHES)
    /\ \/ /\ open_handles' = duckdb_connect_enter(open_handles)
          /\ opened' = opened + 1
          /\ pc' = "count"
          /\ UNCHANGED response
       \/ /\ Raise(OtherError("IOException"))
          /\ UNCHANGED <<open_handles, opened>>
    /\ UNCHANGED <<data, dataset, offset, length, entry, num_original_rows,
                   downloads, num_rows_total, index, num_matched_rows,
                   pa_tables, pa_table, outcome, log, steps, cancelled_at>>

\* full_text_search returns (num_rows_total, pa_table) through the with
\* block; a cancellation that arrived meanwhile is raised at the next await
\* of the task, in create_response.
Return(page) ==
    /\ pa_table' = page
    /\ outcome' = "returned"
    /\ open_handles' = WithExit(open_handles)
    /\ pc' = IF Cancelled THEN "done" ELSE "respond"
    /\ UNCHANGED response

\* an exception leaves full_text_search through the with block and reaches
\* the except clause of search_endpoint
RaiseInStrategy(e) ==
    /\ outcome' = "raised"
    /\ open_handles' = WithExit(open_handles)
    /\ Raise(e)
    /\ UNCHANGED pa_table

QueryLog(kind, lo, hi, ok) == [q |-> kind, lo |-> lo, hi |-> hi, ok |-> ok]

\* con.execute(query=FTS_COUNT_COMMAND, ...): the query is issued on the
\* connection
con_execute_none(lg, q) == lg

con_execute(lg, q) == Append(lg, q)

\* _search_by_batches(...) if fts_batches else _search_by_table(...)
Strategy_table(batches) == "table"

Strategy(batches) == IF batches THEN "batches" ELSE "table"

\* the count query, then the dispatch on fts_batches; _search_by_batches
\* starts with its locals reset and, when range(0, num_original_rows,
\* FTS_BATCH_SIZE) is empty, goes straight to its end.
CountQuery ==
    /\ pc = "count"
    /\ UNCHANGED <<migration_vars, column_vars>>
    /\ \/ /\ num_rows_total' = FTS_COUNT_COMMAND(data)
          /\ log' = con_execute(log, QueryLog("count", 0, 0, TRUE))
          /\ IF Strategy(fts_batches) = "table"
             THEN /\ pc' = "table"
                  /\ UNCHANGED <<open_handles, pa_table, outcome, response,
                                 index, num_matched_rows, pa_tables>>
             ELSE /\ index' = 0
                  /\ num_matched_rows' = 0
                  /\ pa_tables' = <<>>
                  /\ IF 0 < num_original_rows
                     THEN /\ pc' = "batch"
                          /\ UNCHANGED <<open_handles, pa_table, outcome,
                                         response>>
                     ELSE LET r == search_by_batches_finish(<<>>, offset,
                                                            length)
                          IN  IF r.raised
                              THEN RaiseInStrategy(OtherError("ArrowInvalid"))
                              ELSE Return(r.table)
       \/ /\ log' = con_execute(log, QueryLog("count", 0, 0, FALSE))
          /\ open_handles' = WithExit(open_handles)
          /\ Raise(OtherError("duckdb.Error"))
          /\ UNCHANGED <<num_rows_total, pa_table, outcome, index,
                         num_matched_rows, pa_tables>>
    /\ UNCHANGED <<data, dataset, offset, length, entry, num_original_rows,
                   fts_batches, opened, downloads, steps, cancelled_at>>

\* _search_by_table
SearchByTable ==
    /\ pc = "table"
    /\ UNCHANGED <<migration_vars, column_vars>>
    /\ \/ /\ \E page \in FTS_BY_TABLE_COMMAND(data, offset, length) :
                Return(page)
          /\ log' = Append(log, QueryLog("table", offset, length, TRUE))
       \/ /\ RaiseInStrategy(OtherError("duckdb.Error"))
          /\ log' = Append(log, QueryLog("table", offset, length, FALSE))
    /\ UNCHANGED <<data, dataset, offset, length, entry, num_original_rows,
                   fts_batches, opened, downloads, num_rows_total, index,
                   num_matched_rows, pa_tables, steps, cancelled_at>>

\* one iteration of the loop of _search_by_batches; the last one runs on to
\* concat_tables, sort_by, drop and slice
SearchByBatches ==
    /\ pc = "batch"
    /\ UNCHANGED <<migration_vars, column_vars>>
    /\ \/ \E t \in FTS_BY_BATCHES_COMMAND(data, index, index + FTS_BATCH_SIZE) :
            LET tables  == Append(pa_tables, t)
                matched == num_matched_rows + Len(t)
                last    == \/ StopScan(matched, offset, length)
                           \/ index + FTS_BATCH_SIZE >= num_original_rows
                r       == search_by_batches_finish(tables, offset, length)
            IN  /\ log' = Append(log, QueryLog("window", index,
                                               index + FTS_BATCH_SIZE, TRUE))
                /\ pa_tables' = tables
                /\ num_matched_rows' = matched
                /\ IF ~last
                   THEN /\ index' = index + FTS_BATCH_SIZE
                        /\ pc' = "batch"
                        /\ UNCHANGED <<open_handles, pa_table, outcome, response>>
                   ELSE /\ UNCHANGED index
                        /\ IF r.raised
                           THEN RaiseInStrategy(OtherError("ArrowInvalid"))
                           ELSE Return(r.table)
       \/ LET r == search_by_batches_raise(pa_tables, offset, length)
          IN  /\ log' = Append(log, QueryLog("window", index,
                                             index + FTS_BATCH_SIZE, FALSE))
              /\ IF r.raised
                 THEN RaiseInStrategy(OtherError("duckdb.Error"))
                 ELSE Return(r.table)
              /\ UNCHANGED <<index, num_matched_rows, pa_tables>>
    /\ UNCHANGED <<data, dataset, offset, length, entry, num_original_rows,
                   fts_batches, opened, downloads, num_rows_total, steps,
                   cancelled_at>>

\* create_response and get_json_ok_response
CreateResponse ==
    /\ pc = "respond"
    /\ UNCHANGED <<migration_vars, column_vars>>
    /\ \/ /\ response' = get_json_ok_response(pa_table, num_rows_total)
          /\ pc' = "done"
       \/ Raise(OtherError("Exception"))
    /\ UNCHANGED <<data, dataset, offset, length, entry, num_original_rows,
                   fts_batches, open_handles, opened, downloads,
                   num_rows_total, index, num_matched_rows, pa_tables,
                   pa_table, outcome, log, steps, cancelled_at>>

\* The task of the request is cancelled.  At an await of search_endpoint
\* (auth_check, the download, create_response) the CancelledError is raised
\* there; it is no Exception, so the except clause does not answer.  While
\* full_text_search runs in the worker thread of anyio.to_thread.run_sync
\* (called without abandon_on_cancel) the thread is not interrupted.
Cancel ==
    /\ ~Cancelled
    /\ UNCHANGED <<migration_vars, column_vars>>
    /\ pc \in {"auth", "download", "connect", "count", "table", "batch",
                "respond"}
    /\ cancelled_at' = pc
    /\ pc' = IF pc \in {"auth", "download", "respond"} THEN "done" ELSE pc
    /\ UNCHANGED <<data, dataset, offset, length, entry, num_original_rows,
                   fts_batches, open_handles, opened, downloads,
                   num_rows_total, index, num_matched_rows, pa_tables,
                   pa_table, outcome, log, response, steps>>

Next ==
    \/ ValidateParameters
    \/ AuthCheck
    \/ GetCacheEntry
    \/ DownloadIndex
    \/ Connect
    \/ CountQuery
    \/ SearchByTable
    \/ SearchByBatches
    \/ CreateResponse
    \/ Cancel

Spec == Init /\ [][Next]_vars

\* ------------------------------------------------------- claim vocabulary
Matches == {id \in Ids(data) : Score(data, id) # 0}

WindowQueries == {i \in 1..Len(log) : log[i].q = "window"}

FailedWindowQueries == {i \in WindowQueries : ~log[i].ok}

\* the row ids a window query evaluates
Evaluated(i) == {id \in Ids(data) : log[i].lo <= id /\ id <= log[i].hi}

\* the windows of the index that the scan did not reach
UnscannedRows == {id \in Ids(data) : \A i \in WindowQueries : id \notin Evaluated(i)}

ChunkedReturned == fts_batches /\ outcome = "returned"

ChunkedEnded == fts_batches /\ outcome # "none"

\* C1: the page of the chunked strategy is a page the direct strategy returns
\* on the same index: the rows ranked [offset, offset+length) by descending
\* score among all the matching rows of the index.
C1_ChunkedPageIsDirectPage ==
    ChunkedReturned => pa_table \in FTS_BY_TABLE_COMMAND(data, offset, length)

\* C2: the total-match count is the number of rows of the whole index with a
\* non-null score, under either strategy and however many windows were scanned.
C2_CountExact ==
    /\ pc \in {"table", "batch", "respond"}
          => num_rows_total = Cardinality(Matches)
    /\ response.kind = "ok" => response.num_rows_total = Cardinality(Matches)

C2_Witness ==
    /\ response.kind = "ok"
    /\ fts_batches
    /\ UnscannedRows # {}
    /\ num_matched_rows # response.num_rows_total
    /\ response.num_rows_total = 3

\* C3: early termination drops no higher-scoring row: every matching row that
\* scores strictly higher than the row at position i of the page is ranked
\* before it, so at most offset + i - 1 rows score higher.
C3_NoHigherRowDropped ==
    ChunkedReturned =>
        \A i \in 1..Len(pa_table) :
            Cardinality({id \in Matches :
                           Score(data, id) > Score(data, pa_table[i])})
                <= offset + i - 1

\* C4: the windows queried do not overlap: no row index is evaluated by two
\* window queries, and no row index appears twice in the returned page.
C4_WindowsDisjoint ==
    /\ \A i, j \in WindowQueries : i # j => Evaluated(i) \cap Evaluated(j) = {}
    /\ ChunkedReturned =>
          \A i, j \in 1..Len(pa_table) : i # j => pa_table[i] # pa_table[j]

\* C5: with num_original_rows = 0 the chunked strategy returns an empty page
\* and issues no window query; it does not raise.
C5_EmptyIndexIsSuccess ==
    (ChunkedEnded /\ num_original_rows = 0) =>
        /\ outcome = "returned"
        /\ pa_table = <<>>
        /\ WindowQueries = {}

\* C6: short page: when fewer than offset+length rows match and no query
\* failed, the chunked strategy returns the matches ranked from offset to the
\* end, each once; with no match it returns an empty page and a count of 0.
C6_ShortPage ==
    (/\ ChunkedEnded
     /\ FailedWindowQueries = {}
     /\ Cardinality(Matches) < offset + length) =>
        /\ outcome = "returned"
        /\ pa_table \in FTS_BY_TABLE_COMMAND(data, offset, length)
        /\ Cardinality(Matches) = 0 => (pa_table = <<>> /\ num_rows_total = 0)

\* C7: tie-break determinism: two rows of the page with the same score appear
\* in ascending row-index order, whatever order the window queries return
\* their rows in.
C7_TiesAscending ==
    ChunkedReturned =>
        \A i, j \in 1..Len(pa_table) :
            (i < j /\ Score(data, pa_table[i]) = Score(data, pa_table[j]))
                => pa_table[i] <= pa_table[j]

\* C8: the index handle is released on every exit path of full_text_search,
\* and at most one handle is open at any time.
C8_HandleReleased ==
    /\ open_handles <= 1
    /\ pc \in {"respond", "done"} => open_handles = 0

C8_Witness ==
    /\ pc = "done"
    /\ opened = 1
    /\ open_handles = 0
    /\ response.kind = "error"
    /\ Cardinality(WindowQueries) = 2
    /\ Cardinality(FailedWindowQueries) = 1

\* C9: a failed window query fails the whole strategy: no page is returned
\* and the request ends with an error response, never with an OK one.
C9_WindowFailureIsError ==
    FailedWindowQueries # {} =>
        /\ outcome = "raised"
        /\ pa_table = <<>>
        /\ pc = "done"
        /\ response.kind = "error"
        /\ response.error_code = "UnexpectedError"

C9_Witness ==
    /\ FailedWindowQueries # {}
    /\ num_matched_rows > 0
    /\ pa_tables # <<>>
    /\ response.kind = "error"

\* C10: when the entry is resolved without search enabled the request ends
\* with SearchFeatureNotAvailable; nothing is downloaded, no handle is
\* opened and no query is issued.
C10_NoFtsRefused ==
    (entry.http_status = "OK" /\ entry.has_fts # "True") =>
        /\ pc = "done"
        /\ response.kind = "error"
        /\ response.error_code = "SearchFeatureNotAvailableError"
        /\ downloads = 0
        /\ opened = 0
        /\ open_handles = 0
        /\ log = <<>>

C10_Witness ==
    /\ pc = "done"
    /\ entry.http_status = "OK"
    /\ entry.has_fts = "None"
    /\ response.error_code = "SearchFeatureNotAvailableError"

\* the number of rows accumulated by the first k window queries
RECURSIVE Accumulated(_)
Accumulated(k) == IF k = 0 THEN 0 ELSE Len(pa_tables[k]) + Accumulated(k - 1)

\* the k-th window query of the request, as a position of the log
WindowAt(k) == CHOOSE i \in WindowQueries :
                  Cardinality({j \in WindowQueries : j <= i}) = k

\* C12: the window queries are issued in ascending start index 0,
\* FTS_BATCH_SIZE, 2*FTS_BATCH_SIZE, ...; a window is queried only while the
\* running count is at most offset+length, and the scan returns only when the
\* count exceeds offset+length or no window remains.
C12_ScanOrderAndStop ==
    /\ \A k \in 1..Cardinality(WindowQueries) :
          /\ log[WindowAt(k)].lo = (k - 1) * FTS_BATCH_SIZE
          /\ log[WindowAt(k)].lo < num_original_rows
          /\ Accumulated(k - 1) <= offset + length
    /\ pc = "batch" =>
          /\ num_matched_rows <= offset + length
          /\ index < num_original_rows
          /\ index = Cardinality(WindowQueries) * FTS_BATCH_SIZE
    /\ (ChunkedReturned /\ num_original_rows > 0) =>
          \/ num_matched_rows > offset + length
          \/ Cardinality(WindowQueries) * FTS_BATCH_SIZE >= num_original_rows

C12_Witness ==
    /\ ChunkedReturned
    /\ Cardinality(WindowQueries) = 2
    /\ Accumulated(1) = offset + length
    /\ num_matched_rows > offset + length

CountQueries == {i \in 1..Len(log) : log[i].q = "count"}

TableQueries == {i \in 1..Len(log) : log[i].q = "table"}

\* C13: one request issues exactly one count query, which completes before
\* the first direct or window query, and the page is sorted and sliced only
\* after the last query of the request: no query follows it.
C13_StepOrderState ==
    /\ CountQueries \subseteq {1}
    /\ (TableQueries \cup WindowQueries) # {} => (1 \in CountQueries /\ log[1].ok)
    /\ (pc \in {"table", "batch"} \/ outcome # "none") =>
          (CountQueries = {1} /\ log[1].ok)
    /\ pa_table # <<>> => outcome = "returned"

C13_StepOrder ==
    /\ []C13_StepOrderState
    /\ [][outcome # "none" => log' = log]_vars

C13_Witness ==
    /\ ChunkedReturned
    /\ pa_table # <<>>
    /\ Len(log) = 3
    /\ CountQueries = {1}
    /\ WindowQueries = {2, 3}

\* C14: dispatch is exclusive: without the flag the request issues one ranked
\* offset/limit query and no window query, with it only window queries; the
\* flag is set exactly for the datasets of the allow-list, whatever the number
\* of rows of the index.
C14_DispatchExclusive ==
    /\ opened > 0 =>
          (fts_batches <=> dataset \in {"wikimedia/wikipedia", "asoria/search_test"})
    /\ TableQueries # {} => (~fts_batches /\ WindowQueries = {})
    /\ WindowQueries # {} => (fts_batches /\ TableQueries = {})
    /\ Cardinality(TableQueries) <= 1
    /\ (~fts_batches /\ outcome # "none") => Cardinality(TableQueries) = 1
    /\ pc = "table" => ~fts_batches
    /\ pc = "batch" => fts_batches

C14_Witness ==
    /\ outcome = "returned"
    /\ ~fts_batches
    /\ dataset = "user/dataset"
    /\ num_original_rows > FTS_BATCH_SIZE
    /\ Cardinality(TableQueries) = 1
    /\ WindowQueries = {}

\* C15: the page of the chunked strategy has at most `length` rows, holds
\* only rows with a non-null score that a scanned window returned, and is in
\* non-increasing order of score, whether the scan stopped early or not.
C15_PageShape ==
    ChunkedReturned =>
        /\ Len(pa_table) <= length
        /\ \A i \in 1..Len(pa_table) :
              /\ pa_table[i] \in Matches
              /\ \E w \in WindowQueries :
                    log[w].ok /\ pa_table[i] \in Evaluated(w)
        /\ \A i \in 1..(Len(pa_table) - 1) :
              Score(data, pa_table[i]) >= Score(data, pa_table[i + 1])

C15_Witness ==
    /\ ChunkedReturned
    /\ Len(pa_table) = 2
    /\ length = 2
    /\ Score(data, pa_table[1]) > Score(data, pa_table[2])
    /\ pa_table[1] > pa_table[2]
    /\ Cardinality(Matches) > 2

\* C11: when the request is cancelled while the scan is running, no further
\* window query is issued and no result is returned for it.
C11_CancelAbandonsScan ==
    /\ [](cancelled_at = "batch" => response.kind # "ok")
    /\ [][cancelled_at = "batch" =>
            ~(Len(log') > Len(log) /\ log'[Len(log')].q = "window")]_vars

\* C16: the index is opened and queried only after validation, the
\* authentication check, the entry lookup (status OK, has_fts True) and the
\* materialization of the index file have succeeded, in this order; a request
\* that fails earlier ends with an error response, with the entry's own status
\* and error code when the entry is not OK, and never opens the index.
C16_OpenOnlyAfterSteps ==
    /\ (pc \in {"connect", "count", "table", "batch", "respond"}
          \/ opened > 0 \/ log # <<>> \/ outcome # "none") =>
          /\ steps = <<"validate", "auth", "entry", "download">>
          /\ entry.http_status = "OK"
          /\ entry.has_fts = "True"
          /\ downloads = 1
    /\ (pc = "done" /\ ~Cancelled /\ Len(steps) < 4) =>
          /\ response.kind = "error"
          /\ opened = 0
          /\ log = <<>>
          /\ outcome = "none"
    /\ (pc = "done" /\ entry.http_status \notin {"none", "OK"}) =>
          /\ response.kind = "error"
          /\ response.status = entry.http_status
          /\ response.error_code = entry.error_code
          /\ opened = 0

C16_Witness ==
    /\ pc = "done"
    /\ steps = <<"validate", "auth">>
    /\ entry.http_status = "INTERNAL_SERVER_ERROR"
    /\ response.error_code = "PreviousStepFormatError"
    /\ opened = 0

\* ================================================================
\* MigrationCacheDeleteParquetAndDatasetInfo
\* (_20230424174000_cache_delete_parquet_and_dataset_info.py)
\* ================================================================
MaxDocs == 3
MaxOps == 3

cache_kind == "/parquet-and-dataset-info"

Kinds == {cache_kind, "/splits", "/first-rows"}

\* the states of the cache collection: documents with distinct ids
Collections ==
    UNION {{{[id |-> i, kind |-> f[i]] : i \in D} : f \in [D -> Kinds]} :
              D \in SUBSET (1..MaxDocs)}

\* db[...].delete_many({"kind": kind})
delete_one(coll, kind) ==
    IF \E d \in coll : d.kind = kind
    THEN coll \ {CHOOSE d \in coll : d.kind = kind}
    ELSE coll

delete_many(coll, kind) == coll \ {d \in coll : d.kind = kind}

\* db[...].count_documents({"kind": kind})
count_documents(coll, kind) == Cardinality({d \in coll : d.kind = kind})

\* no search request is running
SearchIdle ==
    /\ pc = "done"
    /\ data = <<>>
    /\ dataset = ""
    /\ offset = 0
    /\ length = 0
    /\ entry = NoEntry
    /\ num_original_rows = 0
    /\ fts_batches = FALSE
    /\ open_handles = 0
    /\ opened = 0
    /\ downloads = 0
    /\ num_rows_total = 0
    /\ index = 0
    /\ num_matched_rows = 0
    /\ pa_tables = <<>>
    /\ pa_table = <<>>
    /\ outcome = "none"
    /\ log = <<>>
    /\ response = NoResponse
    /\ steps = <<>>
    /\ cancelled_at = "none"

InitMigration ==
    /\ SearchIdle
    /\ collection \in Collections
    /\ before = collection
    /\ ops = <<>>
    /\ raised = "none"
    /\ feature = NoFeature
    /\ values = <<>>
    /\ result = "none"

up ==
    /\ Len(ops) < MaxOps
    /\ collection' = delete_many(collection, cache_kind)
    /\ before' = collection
    /\ ops' = Append(ops, "up")
    /\ raised' = "none"
    /\ UNCHANGED <<search_vars, column_vars>>

down ==
    /\ Len(ops) < MaxOps
    /\ raised' = "IrreversibleMigrationError"
    /\ before' = collection
    /\ ops' = Append(ops, "down")
    /\ UNCHANGED <<collection, search_vars, column_vars>>

validate ==
    /\ Len(ops) < MaxOps
    /\ raised' = IF count_documents(collection, cache_kind) # 0
                 THEN "ValueError" ELSE "none"
    /\ before' = collection
    /\ ops' = Append(ops, "validate")
    /\ UNCHANGED <<collection, search_vars, column_vars>>

NextMigration == up \/ down \/ validate

SpecMigration == InitMigration /\ [][NextMigration]_vars

\* C17: up() removes every document of kind "/parquet-and-dataset-info" and
\* leaves the others; validate() raises exactly when such a document exists,
\* so not right after up(); up() is idempotent; down() always raises
\* IrreversibleMigrationError and changes nothing.
C17_Migration ==
    LET n == Len(ops)
        targeted(d) == d.kind = "/parquet-and-dataset-info"
    IN  n > 0 =>
          /\ ops[n] = "up" =>
                /\ raised = "none"
                /\ collection \subseteq before
                /\ \A d \in before : targeted(d) <=> d \notin collection
          /\ ops[n] = "validate" =>
                /\ collection = before
                /\ raised \in {"none", "ValueError"}
                /\ raised = "ValueError" <=> \E d \in collection : targeted(d)
          /\ ops[n] = "down" =>
                /\ collection = before
                /\ raised = "IrreversibleMigrationError"
          /\ (n > 1 /\ ops[n - 1] = "up" /\ ops[n] = "validate") =>
                raised = "none"
          /\ (n > 1 /\ ops[n - 1] = "up" /\ ops[n] = "up") =>
                collection = before

C17_Witness ==
    /\ ops = <<"validate", "up">>
    /\ \E d \in before : d.kind = "/parquet-and-dataset-info"
    /\ \E d \in before : d.kind = "/splits"
    /\ collection # before
    /\ collection # {}

\* ================================================================
\* IntColumn (datasets_preview_backend/models/column/int.py)
\* ================================================================
MaxValues == 3

\* the dtypes passed to check_feature_type
IntDtypes ==
    {"int8", "int16", "int32", "int64", "uint8", "uint16", "uint32", "uint64"}

\* a feature is None or a dict with "_type" and "dtype"
Features ==
    {NoFeature}
    \cup {[type |-> "Value", dtype |-> d] :
             d \in IntDtypes \cup {"string", "float32", "bool"}}
    \cup {[type |-> "ClassLabel", dtype |-> ""]}

\* a value is modelled by its Python type
ValueTypes == {"NoneType", "int", "bool", "str"}

ValueLists == UNION {[1..n -> ValueTypes] : n \in 0..MaxValues}

\* check_feature_type(feature, "Value", dtypes): raises unless the feature is
\* of the type and of one of the dtypes
check_feature_type(f, type, dtypes) ==
    IF f.type = type /\ f.dtype \in dtypes THEN "ok" ELSE "TypeError"

\* if value is not None and type(value) != int: raise CellTypeError
check_value_isinstance(value) ==
    IF value # "NoneType" /\ value \notin {"int", "bool"}
    THEN "CellTypeError" ELSE "ok"

check_value(value) ==
    IF value # "NoneType" /\ value # "int" THEN "CellTypeError" ELSE "ok"

\* for value in values: check_value(value)
RECURSIVE check_each(_)
check_each(vs) ==
    IF vs = <<>> THEN "ok"
    ELSE IF check_value(Head(vs)) # "ok" THEN check_value(Head(vs))
    ELSE check_each(Tail(vs))

check_values(vs) ==
    IF check_each(vs) # "ok" THEN check_each(vs)
    ELSE IF vs # <<>> /\ (\A i \in 1..Len(vs) : vs[i] = "NoneType")
    THEN "ColumnInferenceError"
    ELSE "ok"

\* IntColumn.__init__: `if feature:` skips the check for a feature that is
\* None
IntColumn_init(f, vs) ==
    IF f # NoFeature /\ check_feature_type(f, "Value", IntDtypes) # "ok"
    THEN "ColumnTypeError"
    ELSE check_values(vs)

InitIntColumn ==
    /\ SearchIdle
    /\ collection = {}
    /\ before = {}
    /\ ops = <<>>
    /\ raised = "none"
    /\ feature \in Features
    /\ values \in ValueLists
    /\ result = "none"

IntColumn ==
    /\ result = "none"
    /\ result' = IntColumn_init(feature, values)
    /\ UNCHANGED <<feature, values, search_vars, migration_vars>>

NextIntColumn == IntColumn

SpecIntColumn == InitIntColumn /\ [][NextIntColumn]_vars

\* C18: the construction succeeds exactly when the feature is absent or an
\* integer Value, every value is None or exactly an int (a bool is rejected)
\* and the values are not a non-empty list of None only; otherwise it raises
\* ColumnTypeError before CellTypeError before ColumnInferenceError, and an
\* empty list never raises ColumnInferenceError.
C18_IntColumn ==
    LET featureOk ==
            \/ feature.type = "None"
            \/ /\ feature.type = "Value"
               /\ feature.dtype \in {"int8", "int16", "int32", "int64",
                                     "uint8", "uint16", "uint32", "uint64"}
        cellsOk == \A i \in 1..Len(values) : values[i] \in {"NoneType", "int"}
        allNone == Len(values) > 0 /\ \A i \in 1..Len(values) : values[i] = "NoneType"
    IN  result # "none" =>
          /\ result = "ok" <=> (featureOk /\ cellsOk /\ ~allNone)
          /\ result = "ColumnTypeError" <=> ~featureOk
          /\ result = "CellTypeError" <=> (featureOk /\ ~cellsOk)
          /\ result = "ColumnInferenceError" <=> (featureOk /\ cellsOk /\ allNone)
          /\ values = <<>> => result # "ColumnInferenceError"

C18_Witness ==
    /\ result = "CellTypeError"
    /\ feature = [type |-> "Value", dtype |-> "int64"]
    /\ values = <<"NoneType", "int", "bool">>

====
